---------------------------- MODULE Spec2Model ----------------------------
(***************************************************************************)
(* Model of the retrieval and citation layer of pdf_embeddings_system:     *)
(*   src/src/metadata_manager.py   MetadataManager                          *)
(*   src/src/source_formatter.py   SourceFormatter                          *)
(*   src/src/retriever.py          SmartRetriever, MultiCollectionRetriever *)
(*                                                                         *)
(* Python values are represented as follows.                               *)
(*   list, tuple        a sequence                                         *)
(*   str                a string                                           *)
(*   Optional[T]        <<>> for None, <<v>> for a value v                 *)
(*   dict               a sequence of <<key, value>> pairs in insertion    *)
(*                      order, keys unique                                 *)
(*   a raised exception a record [raised |-> <exception type>, ...]        *)
(***************************************************************************)
EXTENDS Integers, Sequences, FiniteSets, TLC

VARIABLES
    pages,      \* argument of merge_consecutive_pages (a list of ints)
    nodes,      \* the retrieved nodes handed to MetadataManager/SourceFormatter
    platform,   \* the pathlib flavour of the host: "posix" or "windows"
    settings,   \* the attributes of config.settings the retrievers read
    fed,        \* the MultiCollectionRetriever: construction status, retrievers
    log,        \* the warnings logged while constructing the federation
    results,    \* the results dict built by the last query_all
    calls,      \* the SmartRetriever.query invocations of the last call
    ret         \* the last call and what it returned

vars == <<pages, nodes, platform, settings, fed, log, results, calls, ret>>

(***************************************************************************)
(* Bounds.                                                                 *)
(***************************************************************************)
\* merge_consecutive_pages is exercised on the ascending sequences of
\* unique integers drawn from -MergeMaxNeg .. MergeMaxPage.
MergeMaxPage == 6
MergeMaxNeg == 2
\* Collections known to the model: "c1" .. "c<MaxCollections>".
MaxCollections == 2
\* Longest explicit collection_names list given to MultiCollectionRetriever.
MaxRequested == 3
\* Page numbers in node metadata range over -MaxNegPage .. MaxPage.
MaxPage == 3
MaxNegPage == 1
\* Longest list of nodes handed to a formatter.
MaxNodes == 3

NoCall == [op |-> "none"]

(***************************************************************************)
(* Python built-ins used by the code.                                      *)
(***************************************************************************)
SetMin(S) == CHOOSE x \in S : \A y \in S : x <= y

\* sorted(s) for a set of ints: the ascending list of its elements.
RECURSIVE sorted(_)
sorted(S) ==
    IF S = {} THEN <<>>
    ELSE LET m == SetMin(S) IN <<m>> \o sorted(S \ {m})

(***************************************************************************)
(* MetadataManager.merge_consecutive_pages  (metadata_manager.py 72-109)   *)
(***************************************************************************)
\* The for loop of lines 94-102 from index i on, then line 105.
RECURSIVE MergeLoop(_, _, _, _, _)
MergeLoop(ps, i, start, end, ranges) ==
    IF i > Len(ps) THEN Append(ranges, <<start, end>>)
    ELSE IF ps[i] = end + 1
         THEN MergeLoop(ps, i + 1, start, ps[i], ranges)
         ELSE MergeLoop(ps, i + 1, ps[i], ps[i], Append(ranges, <<start, end>>))

\* A merge that loses the last range (line 105 missing).
RECURSIVE MergeLoopNoFinal(_, _, _, _, _)
MergeLoopNoFinal(ps, i, start, end, ranges) ==
    IF i > Len(ps) THEN ranges
    ELSE IF ps[i] = end + 1
         THEN MergeLoopNoFinal(ps, i + 1, start, ps[i], ranges)
         ELSE MergeLoopNoFinal(ps, i + 1, ps[i], ps[i],
                               Append(ranges, <<start, end>>))

merge_consecutive_pages_no_final(ps) ==
    IF ps = <<>> THEN <<>>
    ELSE MergeLoopNoFinal(ps, 2, ps[1], ps[1], <<>>)

\* A merge that never extends a range (the test of line 95 always false).
merge_consecutive_pages_no_extend(ps) ==
    [i \in 1..Len(ps) |-> <<ps[i], ps[i]>>]

merge_consecutive_pages(ps) ==
    IF ps = <<>> THEN <<>>
    ELSE MergeLoop(ps, 2, ps[1], ps[1], <<>>)

(***************************************************************************)
(* Nodes.  A node is [has_metadata, metadata]; metadata maps each of the   *)
(* keys page, start_page, filename, file_path to an Optional value, <<>>   *)
(* standing for a key that metadata.get() does not find.                   *)
(***************************************************************************)
Metadata(page, start_page, filename, file_path) ==
    [page |-> page, start_page |-> start_page, filename |-> filename,
     file_path |-> file_path]

Node(page, start_page, filename, file_path) ==
    [has_metadata |-> TRUE,
     metadata |-> Metadata(page, start_page, filename, file_path)]

\* An object without a metadata attribute.
NoMetadataNode ==
    [has_metadata |-> FALSE, metadata |-> Metadata(<<>>, <<>>, <<>>, <<>>)]

(***************************************************************************)
(* Strings.                                                                *)
(***************************************************************************)
Char(s, i) == SubSeq(s, i, i)

\* s.replace(a, b) for single characters a, b.
RECURSIVE ReplaceChar(_, _, _)
ReplaceChar(s, a, b) ==
    IF Len(s) = 0 THEN ""
    ELSE (IF Char(s, 1) = a THEN b ELSE Char(s, 1))
         \o ReplaceChar(SubSeq(s, 2, Len(s)), a, b)

\* '=' * 80
Rule80 == "================================================================================"

(***************************************************************************)
(* MetadataManager  (metadata_manager.py)                                  *)
(***************************************************************************)
\* extract_page_from_node (22-46): Optional[int].  int() of an int is
\* that int; `if page:` is false for None and for 0.
extract_page_from_node(node) ==
    IF ~node.has_metadata THEN <<>>
    ELSE LET page == node.metadata.page
             start_page == node.metadata.start_page
         IN  IF page # <<>> /\ page[1] # 0 THEN <<page[1]>>
             ELSE IF start_page # <<>> /\ start_page[1] # 0
                  THEN <<start_page[1]>>
                  ELSE <<>>

\* The set built by the loop of extract_pages_from_nodes (59-64).
PageSet(ns) ==
    {extract_page_from_node(ns[i])[1] :
        i \in {j \in 1..Len(ns) :
                  /\ extract_page_from_node(ns[j]) # <<>>
                  /\ extract_page_from_node(ns[j])[1] # 0}}

\* The pages in the order of the nodes, one per node, neither sorted nor
\* deduplicated.
RECURSIVE extract_pages_from_nodes_in_node_order(_)
extract_pages_from_nodes_in_node_order(ns) ==
    IF ns = <<>> THEN <<>>
    ELSE LET page == extract_page_from_node(Head(ns))
         IN  (IF page # <<>> /\ page[1] # 0 THEN page ELSE <<>>)
             \o extract_pages_from_nodes_in_node_order(Tail(ns))

\* extract_pages_from_nodes (48-69)
extract_pages_from_nodes(ns) == sorted(PageSet(ns))

\* format_page_range (111-126)
format_page_range(start, end) ==
    IF start = end THEN "Page " \o ToString(start)
    ELSE "Pages " \o ToString(start) \o "-" \o ToString(end)

\* pathlib on the host, as Python 3.11 parses paths.  A path is kept in
\* the host's native form, parsed into [drv, root, parts]; the working
\* directory is PosixCwd or WindowsCwd.  The host "posix_no_cwd" is a POSIX
\* host on which the working directory of the process has been removed, so
\* that os.getcwd() raises FileNotFoundError.  absolute() joins a path
\* that is not absolute to the working directory by parsing
\* [cwd] + path.parts again, without resolving "..".
PosixCwd == "/work"
WindowsCwd == "C:\\work"

\* The element of a set of one element.  TheOne({e(x) : x \in {v}}) is
\* e(v) with v computed once, where LET x == v would compute v at each use
\* of x.
TheOne(S) == CHOOSE x \in S : TRUE

\* s[a-1:b] of Python for 1 <= a: the slice is cut at the end of s.
Slice(s, a, b) == SubSeq(s, a, IF b > Len(s) THEN Len(s) ELSE b)

\* s.startswith(pre)
HasPrefix(s, pre) == Len(s) >= Len(pre) /\ SubSeq(s, 1, Len(pre)) = pre

\* s.find(c, from - 1) + 1: the first position >= from of the character c
\* in s, 0 when there is none.
Find(s, c, from) ==
    LET hits == {i \in from..Len(s) : Char(s, i) = c}
    IN  IF hits = {} THEN 0 ELSE SetMin(hits)

\* s.lstrip(c)
RECURSIVE LStrip(_, _)
LStrip(s, c) ==
    IF Len(s) > 0 /\ Char(s, 1) = c THEN LStrip(SubSeq(s, 2, Len(s)), c)
    ELSE s

\* s.split(c)
Split(s, c) ==
    LET breaks == sorted({0, Len(s) + 1}
                         \cup {i \in 1..Len(s) : Char(s, i) = c})
    IN  [k \in 1..(Len(breaks) - 1) |->
            SubSeq(s, breaks[k] + 1, breaks[k + 1] - 1)]

\* sep.join(parts)
RECURSIVE Join(_, _)
Join(parts, sep) ==
    IF parts = <<>> THEN ""
    ELSE IF Len(parts) = 1 THEN parts[1]
    ELSE parts[1] \o sep \o Join(Tail(parts), sep)

\* The separator of the host's path flavour.
PathSep(pf) == IF pf = "windows" THEN "\\" ELSE "/"

DriveLetters ==
    {"a", "b", "c", "d", "e", "f", "g", "h", "i", "j", "k", "l", "m", "n",
     "o", "p", "q", "r", "s", "t", "u", "v", "w", "x", "y", "z",
     "A", "B", "C", "D", "E", "F", "G", "H", "I", "J", "K", "L", "M", "N",
     "O", "P", "Q", "R", "S", "T", "U", "V", "W", "X", "Y", "Z"}

\* _WindowsFlavour._split_extended_path: the prefix \\?\ or \\?\UNC\.
SplitExtendedPath(s) ==
    IF HasPrefix(s, "\\\\?\\")
    THEN LET rest == SubSeq(s, 5, Len(s))
         IN  IF HasPrefix(rest, "UNC\\")
             THEN [prefix |-> "\\\\?\\UNC",
                   s |-> "\\" \o SubSeq(rest, 4, Len(rest))]
             ELSE [prefix |-> "\\\\?\\", s |-> rest]
    ELSE [prefix |-> "", s |-> s]

\* _WindowsFlavour.splitroot: [drv, root, rel].
WindowsSplitRoot(part0) ==
    LET ext == IF Slice(part0, 1, 1) = "\\" /\ Slice(part0, 2, 2) = "\\"
               THEN SplitExtendedPath(part0)
               ELSE [prefix |-> "", s |-> part0]
        prefix == ext.prefix
        part == ext.s
        first == Slice(part, 1, 1)
        second == Slice(part, 2, 2)
        third == Slice(part, 3, 3)
        index == Find(part, "\\", 3)
        index2 == Find(part, "\\", index + 1)
        end == IF index2 = 0 THEN Len(part) ELSE index2 - 1
        hasDrive == second = ":" /\ first \in DriveLetters
        drv == IF hasDrive THEN SubSeq(part, 1, 2) ELSE ""
        rest == IF hasDrive THEN SubSeq(part, 3, Len(part)) ELSE part
        head == IF hasDrive THEN third ELSE first
    IN  IF /\ second = "\\" /\ first = "\\" /\ third # "\\"
           /\ index # 0 /\ index2 # index + 1
        THEN [drv |-> IF prefix # "" THEN prefix \o SubSeq(part, 2, end)
                      ELSE SubSeq(part, 1, end),
              root |-> "\\",
              rel |-> IF index2 = 0 THEN ""
                      ELSE SubSeq(part, index2 + 1, Len(part))]
        ELSE [drv |-> prefix \o drv,
              root |-> IF head = "\\" THEN "\\" ELSE "",
              rel |-> IF head = "\\" THEN LStrip(rest, "\\") ELSE rest]

\* _PosixFlavour.splitroot: exactly two leading slashes are kept.
PosixSplitRoot(part) ==
    IF Len(part) > 0 /\ Char(part, 1) = "/"
    THEN LET stripped == LStrip(part, "/")
         IN  [drv |-> "",
              root |-> IF Len(part) - Len(stripped) = 2 THEN "//" ELSE "/",
              rel |-> stripped]
    ELSE [drv |-> "", root |-> "", rel |-> part]

SplitRoot(part, pf) ==
    IF pf = "windows" THEN WindowsSplitRoot(part) ELSE PosixSplitRoot(part)

\* part.replace(altsep, sep): only the Windows flavour has an altsep.
NativeSeps(part, pf) ==
    IF pf = "windows" THEN ReplaceChar(part, "/", "\\") ELSE part

\* The elements of xs that parse_parts keeps: not empty and not ".".
RECURSIVE KeptComponents(_)
KeptComponents(xs) ==
    IF xs = <<>> THEN <<>>
    ELSE (IF Head(xs) # "" /\ Head(xs) # "." THEN <<Head(xs)>> ELSE <<>>)
         \o KeptComponents(Tail(xs))

\* The components of rel (68-74).
Components(rel, pf) == KeptComponents(Split(rel, PathSep(pf)))

\* The inner loop of parse_parts (80-87): the drive of the nearest earlier
\* part that has one.
RECURSIVE EarlierDrive(_, _, _)
EarlierDrive(parts, i, pf) ==
    IF i = 0 THEN ""
    ELSE IF parts[i] = "" THEN EarlierDrive(parts, i - 1, pf)
    ELSE LET drv == SplitRoot(NativeSeps(parts[i], pf), pf).drv
         IN  IF drv # "" THEN drv ELSE EarlierDrive(parts, i - 1, pf)

\* The loop of _Flavour.parse_parts from the i-th part backwards; `parsed`
\* holds the components of the later parts, in their final order.
RECURSIVE ParsePartsFrom(_, _, _, _)
ParsePartsFrom(parts, i, parsed, pf) ==
    IF i = 0 THEN [drv |-> "", root |-> "", parts |-> parsed]
    ELSE IF parts[i] = "" THEN ParsePartsFrom(parts, i - 1, parsed, pf)
    ELSE TheOne({
             IF sr.drv # "" \/ sr.root # ""
             THEN LET drv == IF sr.drv # "" THEN sr.drv
                             ELSE EarlierDrive(parts, i - 1, pf)
                  IN  [drv |-> drv, root |-> sr.root,
                       parts |-> <<drv \o sr.root>>
                                 \o Components(sr.rel, pf) \o parsed]
             ELSE ParsePartsFrom(parts, i - 1,
                                 Components(sr.rel, pf) \o parsed, pf) :
             sr \in {SplitRoot(NativeSeps(parts[i], pf), pf)}})

\* _Flavour.parse_parts: [drv, root, parts].
ParseParts(parts, pf) == ParsePartsFrom(parts, Len(parts), <<>>, pf)

\* str(path): _format_parsed_parts, "." for the empty path.
PathStr(path, pf) ==
    LET text == IF path.drv # "" \/ path.root # ""
                THEN path.drv \o path.root
                     \o Join(Tail(path.parts), PathSep(pf))
                ELSE Join(path.parts, PathSep(pf))
    IN  IF text = "" THEN "." ELSE text

\* PurePath.is_absolute
IsAbsolute(path, pf) ==
    path.root # "" /\ (pf # "windows" \/ path.drv # "")

\* Path(file_path).absolute() (144) raises: a path that is not absolute is
\* joined to os.getcwd(), an absolute path is returned as it is.
PathAbsoluteRaises(file_path, pf) ==
    pf = "posix_no_cwd" /\ ~IsAbsolute(ParseParts(<<file_path>>, pf), pf)

\* generate_file_url (128-154) raises what line 144 raises: the function
\* has no handler.
generate_file_url_raises(file_path, pf) == PathAbsoluteRaises(file_path, pf)

\* Path(file_path).absolute() (144): the path object [drv, root, parts].
PathAbsolute(file_path, pf) ==
    LET cwd == IF pf = "windows" THEN WindowsCwd ELSE PosixCwd
    IN  TheOne({IF IsAbsolute(path, pf) THEN path
                ELSE ParseParts(<<cwd>> \o path.parts, pf) :
                path \in {ParseParts(<<file_path>>, pf)}})

\* path.drive (147)
PathDrive(path, pf) == path.drv

\* path.as_posix() (149, 152)
as_posix(path, pf) ==
    IF pf = "windows" THEN ReplaceChar(PathStr(path, pf), "\\", "/")
    ELSE PathStr(path, pf)

\* A link that always opens the first page of the file.
generate_file_url_first_page(file_path, page, pf) ==
    TheOne({IF PathDrive(path, pf) # ""
            THEN "file:///" \o as_posix(path, pf) \o "#page=1"
            ELSE "file://" \o as_posix(path, pf) \o "#page=1" :
            path \in {PathAbsolute(file_path, pf)}})

\* generate_file_url (128-154)
generate_file_url(file_path, page, pf) ==
    TheOne({IF PathDrive(path, pf) # ""
            THEN "file:///" \o as_posix(path, pf) \o "#page="
                 \o ToString(page)
            ELSE "file://" \o as_posix(path, pf) \o "#page="
                 \o ToString(page) :
            path \in {PathAbsolute(file_path, pf)}})

\* A scan that tests `is not None` instead of truthiness: it returns the
\* first file_path present, the empty string included.
RECURSIVE extract_file_path_from_nodes_any_value(_)
extract_file_path_from_nodes_any_value(ns) ==
    IF ns = <<>> THEN <<>>
    ELSE LET n == Head(ns)
         IN  IF n.has_metadata /\ n.metadata.file_path # <<>>
             THEN n.metadata.file_path
             ELSE extract_file_path_from_nodes_any_value(Tail(ns))

\* extract_file_path_from_nodes (156-173): Optional[str]
RECURSIVE extract_file_path_from_nodes(_)
extract_file_path_from_nodes(ns) ==
    IF ns = <<>> THEN <<>>
    ELSE LET n == Head(ns)
         IN  IF n.has_metadata /\ n.metadata.file_path # <<>>
                /\ n.metadata.file_path[1] # ""
             THEN n.metadata.file_path
             ELSE extract_file_path_from_nodes(Tail(ns))

\* A scan that takes the filename from the node that gave the file path.
RECURSIVE extract_filename_of_path_node(_)
extract_filename_of_path_node(ns) ==
    IF ns = <<>> THEN "unknown.pdf"
    ELSE LET n == Head(ns)
         IN  IF n.has_metadata /\ n.metadata.file_path # <<>>
                /\ n.metadata.file_path[1] # ""
             THEN IF n.metadata.filename # <<>> /\ n.metadata.filename[1] # ""
                  THEN n.metadata.filename[1] ELSE "unknown.pdf"
             ELSE extract_filename_of_path_node(Tail(ns))

\* extract_filename_from_nodes (175-192)
RECURSIVE extract_filename_from_nodes(_)
extract_filename_from_nodes(ns) ==
    IF ns = <<>> THEN "unknown.pdf"
    ELSE LET n == Head(ns)
         IN  IF n.has_metadata /\ n.metadata.filename # <<>>
                /\ n.metadata.filename[1] # ""
             THEN n.metadata.filename[1]
             ELSE extract_filename_from_nodes(Tail(ns))

(***************************************************************************)
(* SourceFormatter  (source_formatter.py)                                  *)
(*                                                                         *)
(* Characters outside ASCII are written as their code point in brackets,   *)
(* and the colorama escape sequences with a literal \x1b for ESC.          *)
(***************************************************************************)
IconPage == "[U+1F4C4]"
IconLink == "[U+1F517]"
IconTip == "[U+1F4A1]"
ForeCyan == "\\x1b[36m"
ForeGreen == "\\x1b[32m"
ForeYellow == "\\x1b[33m"
ForeBlue == "\\x1b[34m"
StyleResetAll == "\\x1b[0m"

\* The loop of format_for_terminal (53-61) over ranges[i..].
RECURSIVE TerminalLines(_, _, _, _)
TerminalLines(ranges, i, file_path, pf) ==
    IF i > Len(ranges) THEN ""
    ELSE LET start == ranges[i][1]
             end == ranges[i][2]
             page_text == format_page_range(start, end)
         IN  (IF file_path # <<>> /\ file_path[1] # ""
              THEN ForeYellow \o "  " \o IconLink \o " " \o page_text
                   \o StyleResetAll \o "\n"
                   \o "     " \o ForeBlue
                   \o generate_file_url(file_path[1], start, pf)
                   \o StyleResetAll \o "\n\n"
              ELSE ForeYellow \o "  " \o IconPage \o " " \o page_text
                   \o StyleResetAll \o "\n\n")
             \o TerminalLines(ranges, i + 1, file_path, pf)

\* format_for_terminal (27-68)
format_for_terminal(ns, show_tips, pf) ==
    LET ps == extract_pages_from_nodes(ns)
        file_path == extract_file_path_from_nodes(ns)
        filename == extract_filename_from_nodes(ns)
        ranges == merge_consecutive_pages(ps)
    IN  IF ps = <<>>
        THEN "\n" \o ForeYellow \o IconPage
             \o " No page information available" \o StyleResetAll
        ELSE "\n" \o ForeCyan \o Rule80 \o StyleResetAll \o "\n"
             \o ForeGreen \o IconPage \o " SOURCES: " \o filename
             \o StyleResetAll \o "\n"
             \o ForeCyan \o Rule80 \o StyleResetAll \o "\n\n"
             \o TerminalLines(ranges, 1, file_path, pf)
             \o ForeCyan \o Rule80 \o StyleResetAll \o "\n"
             \o (IF show_tips
                 THEN ForeYellow \o IconTip
                      \o " Tip: Ctrl+Click the blue links to open PDF at exact page"
                      \o StyleResetAll \o "\n"
                 ELSE "")

\* The loop of format_for_plain_text (93-100) over ranges[i..].
RECURSIVE PlainLines(_, _, _, _)
PlainLines(ranges, i, file_path, pf) ==
    IF i > Len(ranges) THEN ""
    ELSE LET start == ranges[i][1]
             end == ranges[i][2]
             page_text == format_page_range(start, end)
         IN  (IF file_path # <<>> /\ file_path[1] # ""
              THEN "  " \o IconLink \o " " \o page_text \o "\n     "
                   \o generate_file_url(file_path[1], start, pf) \o "\n\n"
              ELSE "  " \o IconPage \o " " \o page_text \o "\n\n")
             \o PlainLines(ranges, i + 1, file_path, pf)

\* A plain-text formatter without the early return of lines 82-83.
format_for_plain_text_no_sentinel(ns, pf) ==
    LET ps == extract_pages_from_nodes(ns)
        file_path == extract_file_path_from_nodes(ns)
        filename == extract_filename_from_nodes(ns)
        ranges == merge_consecutive_pages(ps)
    IN  "\n" \o Rule80 \o "\n"
        \o IconPage \o " SOURCES: " \o filename \o "\n"
        \o Rule80 \o "\n\n"
        \o PlainLines(ranges, 1, file_path, pf)
        \o Rule80 \o "\n"

\* format_for_plain_text (70-104)
format_for_plain_text(ns, pf) ==
    LET ps == extract_pages_from_nodes(ns)
        file_path == extract_file_path_from_nodes(ns)
        filename == extract_filename_from_nodes(ns)
        ranges == merge_consecutive_pages(ps)
    IN  IF ps = <<>>
        THEN "\n" \o IconPage \o " No page information available"
        ELSE "\n" \o Rule80 \o "\n"
             \o IconPage \o " SOURCES: " \o filename \o "\n"
             \o Rule80 \o "\n\n"
             \o PlainLines(ranges, 1, file_path, pf)
             \o Rule80 \o "\n"

\* One entry of page_ranges (123-131).  The keys link and file_path are
\* Optional: <<>> when the entry does not have the key.
JsonSource(start, end, file_path, pf) ==
    [start_page |-> start,
     end_page |-> end,
     page_text |-> format_page_range(start, end),
     link |-> IF file_path # <<>> /\ file_path[1] # ""
              THEN <<generate_file_url(file_path[1], start, pf)>> ELSE <<>>,
     file_path |-> IF file_path # <<>> /\ file_path[1] # ""
                   THEN file_path ELSE <<>>]

\* A record whose total counts the nodes instead of the distinct pages.
format_for_json_counts_nodes(ns, pf) ==
    LET ps == extract_pages_from_nodes(ns)
        file_path == extract_file_path_from_nodes(ns)
        filename == extract_filename_from_nodes(ns)
        ranges == merge_consecutive_pages(ps)
    IN  [filename |-> filename,
         total_pages_referenced |-> Len(ns),
         page_ranges |->
             [i \in 1..Len(ranges) |->
                 JsonSource(ranges[i][1], ranges[i][2], file_path, pf)],
         has_links |-> file_path # <<>>]

\* format_for_json (106-140)
format_for_json(ns, pf) ==
    LET ps == extract_pages_from_nodes(ns)
        file_path == extract_file_path_from_nodes(ns)
        filename == extract_filename_from_nodes(ns)
        ranges == merge_consecutive_pages(ps)
    IN  [filename |-> filename,
         total_pages_referenced |-> Len(ps),
         page_ranges |->
             [i \in 1..Len(ranges) |->
                 JsonSource(ranges[i][1], ranges[i][2], file_path, pf)],
         has_links |-> file_path # <<>>]

\* The loop of format_for_html (165-172) over ranges[i..].
RECURSIVE HtmlItems(_, _, _, _)
HtmlItems(ranges, i, file_path, pf) ==
    IF i > Len(ranges) THEN ""
    ELSE LET start == ranges[i][1]
             end == ranges[i][2]
             page_text == format_page_range(start, end)
         IN  (IF file_path # <<>> /\ file_path[1] # ""
              THEN "    <li><a href=\""
                   \o generate_file_url(file_path[1], start, pf)
                   \o "\" target=\"_blank\">" \o page_text \o "</a></li>\n"
              ELSE "    <li>" \o page_text \o "</li>\n")
             \o HtmlItems(ranges, i + 1, file_path, pf)

\* An HTML list written from the page numbers, without merging them.
format_for_html_unmerged(ns, pf) ==
    LET ps == extract_pages_from_nodes(ns)
        file_path == extract_file_path_from_nodes(ns)
        filename == extract_filename_from_nodes(ns)
        ranges == [i \in 1..Len(ps) |-> <<ps[i], ps[i]>>]
    IN  IF ps = <<>>
        THEN "<p>" \o IconPage \o " No page information available</p>"
        ELSE "<div class=\"sources\">\n"
             \o "  <h3>" \o IconPage \o " Sources: " \o filename \o "</h3>\n"
             \o "  <ul>\n"
             \o HtmlItems(ranges, 1, file_path, pf)
             \o "  </ul>\n"
             \o "</div>\n"

\* format_for_html (142-177)
format_for_html(ns, pf) ==
    LET ps == extract_pages_from_nodes(ns)
        file_path == extract_file_path_from_nodes(ns)
        filename == extract_filename_from_nodes(ns)
        ranges == merge_consecutive_pages(ps)
    IN  IF ps = <<>>
        THEN "<p>" \o IconPage \o " No page information available</p>"
        ELSE "<div class=\"sources\">\n"
             \o "  <h3>" \o IconPage \o " Sources: " \o filename \o "</h3>\n"
             \o "  <ul>\n"
             \o HtmlItems(ranges, 1, file_path, pf)
             \o "  </ul>\n"
             \o "</div>\n"

\* A formatter raises what generate_file_url raises (57, 97, 130, 169):
\* the call is made for every range once a file path was found, and no
\* formatter has a handler around it.
FormatterRaises(ns, pf) ==
    LET ps == extract_pages_from_nodes(ns)
        file_path == extract_file_path_from_nodes(ns)
    IN  /\ merge_consecutive_pages(ps) # <<>>
        /\ file_path # <<>> /\ file_path[1] # ""
        /\ generate_file_url_raises(file_path[1], pf)

(***************************************************************************)
(* Python dicts: insertion-ordered, a sequence of <<key, value>> pairs.    *)
(***************************************************************************)
DictKeys(d) == [i \in 1..Len(d) |-> d[i][1]]
DictValues(d) == [i \in 1..Len(d) |-> d[i][2]]
DictHas(d, k) == \E i \in 1..Len(d) : d[i][1] = k
DictGet(d, k) == d[CHOOSE i \in 1..Len(d) : d[i][1] = k][2]
\* d[k] = v: a present key keeps its position, a new key goes last.
DictSet(d, k, v) ==
    IF DictHas(d, k)
    THEN [i \in 1..Len(d) |-> IF d[i][1] = k THEN <<k, v>> ELSE d[i]]
    ELSE Append(d, <<k, v>>)

(***************************************************************************)
(* config.settings  (config/settings.py).  SIMILARITY_TOP_K is line 30.    *)
(* ENABLE_AUTO_MERGING is read by retriever.py (65, 91) and is not         *)
(* assigned in settings.py: reading it raises AttributeError unless the    *)
(* deployment defines it.  The attribute is <<>> when undefined.           *)
(***************************************************************************)
SIMILARITY_TOP_K == 6

SettingsAsWritten ==
    [SIMILARITY_TOP_K |-> SIMILARITY_TOP_K, ENABLE_AUTO_MERGING |-> <<>>]

SettingsValues ==
    {[SIMILARITY_TOP_K |-> SIMILARITY_TOP_K, ENABLE_AUTO_MERGING |-> e] :
        e \in {<<>>, <<TRUE>>, <<FALSE>>}}

NoSuchSetting == "module 'config.settings' has no attribute 'ENABLE_AUTO_MERGING'"

(***************************************************************************)
(* The external index/storage provider (StorageManager, llama_index).      *)
(***************************************************************************)
\* What StorageManager.load_index does for one collection: it raises, or
\* yields the index and reports whether the docstore was loaded.
LoadOutcomes ==
    {[ok |-> FALSE, has_docstore |-> FALSE, msg |-> "collection not found"],
     [ok |-> TRUE, has_docstore |-> FALSE, msg |-> ""],
     [ok |-> TRUE, has_docstore |-> TRUE, msg |-> ""]}

\* What the index does for one query: building the query engine raises,
\* the query raises, or a response comes back.  str(response) is `answer`;
\* the response has no source_nodes attribute ("absent"), has None ("none")
\* or has a list ("list").
BackendOutcome(kind, msg, answer, sn, source_nodes) ==
    [kind |-> kind, msg |-> msg, answer |-> answer, sn |-> sn,
     nodes |-> source_nodes]

FedOutcomes ==
    {BackendOutcome("raise_query", "backend unavailable", "", "list", <<>>),
     BackendOutcome("ok", "", "a", "list", <<"n1">>),
     BackendOutcome("ok", "", "bbb", "list", <<"n1", "n2">>),
     BackendOutcome("ok", "", "a", "absent", <<>>)}

QueryOutcomes ==
    FedOutcomes \cup
    {BackendOutcome("raise_engine", "malformed embeddings", "", "list", <<>>),
     BackendOutcome("raise_query", "", "", "list", <<>>),
     BackendOutcome("ok", "", "", "list", <<>>),
     BackendOutcome("ok", "", "bbb", "none", <<>>)}

NoneHasNoLen == "object of type 'NoneType' has no len()"

(***************************************************************************)
(* QueryResponse  (retriever.py 16-23)                                     *)
(***************************************************************************)
QueryResponse(answer, source_nodes, collection_name, retrieval_successful, error_message) ==
    [answer |-> answer, source_nodes |-> source_nodes,
     collection_name |-> collection_name,
     retrieval_successful |-> retrieval_successful,
     error_message |-> error_message]

(***************************************************************************)
(* SmartRetriever  (retriever.py 26-130)                                   *)
(***************************************************************************)
\* `x or y` for an Optional[int] x: None and 0 are falsy.
OrDefault(x, y) == IF x # <<>> /\ x[1] # 0 THEN x[1] ELSE y

\* __init__ (37-73): [ok, obj, error].  `load` is what load_index does.
SmartRetriever_init(collection_name, verbose, similarity_top_k, st, load) ==
    LET obj == [collection_name |-> collection_name,
                verbose |-> verbose,
                similarity_top_k |->
                    OrDefault(similarity_top_k, st.SIMILARITY_TOP_K),
                has_docstore |-> load.has_docstore]
    IN  IF st.ENABLE_AUTO_MERGING = <<>>
        THEN [ok |-> FALSE, obj |-> obj, error |-> NoSuchSetting]
        ELSE IF ~load.ok
        THEN [ok |-> FALSE, obj |-> obj, error |-> load.msg]
        ELSE [ok |-> TRUE, obj |-> obj, error |-> ""]

\* The except branch of query (122-130).
QueryFailed(self, msg) ==
    QueryResponse("", <<>>, self.collection_name, FALSE, <<msg>>)

\* A query whose except branch returns what the response held so far.
SmartRetriever_query_keeps_answer(self, query_text, similarity_top_k, st, out) ==
    LET k == OrDefault(similarity_top_k, self.similarity_top_k)
        call == [collection_name |-> self.collection_name,
                 query_text |-> query_text, top_k |-> k,
                 mode |-> IF self.has_docstore
                             /\ st.ENABLE_AUTO_MERGING = <<TRUE>>
                          THEN "auto_merging" ELSE "standard"]
    IN  IF out.kind = "ok" /\ out.sn # "none"
        THEN [response |-> QueryResponse(out.answer,
                              IF out.sn = "absent" THEN <<>> ELSE out.nodes,
                              self.collection_name, TRUE, <<>>),
              call |-> call]
        ELSE [response |-> QueryResponse(out.answer, <<>>,
                              self.collection_name, FALSE,
                              <<IF out.kind = "ok" THEN NoneHasNoLen
                                ELSE out.msg>>),
              call |-> call]

\* A query whose except branch forgets the failure's message.
SmartRetriever_query_drops_message(self, query_text, similarity_top_k, st, out) ==
    LET k == OrDefault(similarity_top_k, self.similarity_top_k)
        call == [collection_name |-> self.collection_name,
                 query_text |-> query_text, top_k |-> k,
                 mode |-> IF self.has_docstore
                             /\ st.ENABLE_AUTO_MERGING = <<TRUE>>
                          THEN "auto_merging" ELSE "standard"]
    IN  IF out.kind = "ok" /\ out.sn # "none"
        THEN [response |-> QueryResponse(out.answer,
                              IF out.sn = "absent" THEN <<>> ELSE out.nodes,
                              self.collection_name, TRUE, <<>>),
              call |-> call]
        ELSE [response |-> QueryResponse("", <<>>, self.collection_name,
                              FALSE, <<"">>),
              call |-> call]

\* query (75-130): [response, call].  `out` is what the index does; `call`
\* records the invocation: the top-k and the retrieval mode it selected
\* ("none" when the selection itself failed).
SmartRetriever_query(self, query_text, similarity_top_k, st, out) ==
    LET k == OrDefault(similarity_top_k, self.similarity_top_k)
        call(mode) == [collection_name |-> self.collection_name,
                       query_text |-> query_text, top_k |-> k, mode |-> mode]
        mode == IF self.has_docstore /\ st.ENABLE_AUTO_MERGING = <<TRUE>>
                THEN "auto_merging" ELSE "standard"
        source_nodes == IF out.sn = "absent" THEN <<>> ELSE out.nodes
    IN  IF self.has_docstore /\ st.ENABLE_AUTO_MERGING = <<>>
        THEN [response |-> QueryFailed(self, NoSuchSetting),
              call |-> call("none")]
        ELSE IF out.kind \in {"raise_engine", "raise_query"}
        THEN [response |-> QueryFailed(self, out.msg), call |-> call(mode)]
        ELSE IF out.sn = "none"
        THEN [response |-> QueryFailed(self, NoneHasNoLen),
              call |-> call(mode)]
        ELSE [response |-> QueryResponse(out.answer, source_nodes,
                              self.collection_name, TRUE, <<>>),
              call |-> call(mode)]

(***************************************************************************)
(* MultiCollectionRetriever  (retriever.py 133-207)                        *)
(***************************************************************************)
Unbuilt == [status |-> "unbuilt", retrievers |-> <<>>, error |-> ""]

\* The loop of __init__ (157-161) from the i-th name on: [retrievers, log].
\* loads[i] is what load_index does for the i-th name of the list.
RECURSIVE InitLoop(_, _, _, _, _, _, _)
InitLoop(names, i, verbose, st, loads, retrievers, warnings) ==
    IF i > Len(names) THEN [retrievers |-> retrievers, log |-> warnings]
    ELSE LET r == SmartRetriever_init(names[i], verbose, <<>>, st, loads[i])
         IN  IF r.ok
             THEN InitLoop(names, i + 1, verbose, st, loads,
                           DictSet(retrievers, names[i], r.obj), warnings)
             ELSE InitLoop(names, i + 1, verbose, st, loads, retrievers,
                           Append(warnings,
                                  [collection |-> names[i], error |-> r.error]))

\* A constructor without the check of line 163: it returns a federation
\* without retrievers, on which query_best raises IndexError (line 202).
MultiCollectionRetriever_init_no_check(collection_names, verbose, st, listed, loads) ==
    LET names == IF collection_names = <<>> THEN listed
                 ELSE collection_names[1]
        built == InitLoop(names, 1, verbose, st, loads, <<>>, <<>>)
    IN  IF names = <<>>
        THEN [fed |-> [status |-> "raised", retrievers |-> <<>>,
                       error |-> "No collections available"],
              log |-> <<>>]
        ELSE [fed |-> [status |-> "ready", retrievers |-> built.retrievers,
                       error |-> ""],
              log |-> built.log]

\* A constructor that gives up at the first collection that fails to load.
MultiCollectionRetriever_init_strict(collection_names, verbose, st, listed, loads) ==
    LET names == IF collection_names = <<>> THEN listed
                 ELSE collection_names[1]
        built == InitLoop(names, 1, verbose, st, loads, <<>>, <<>>)
    IN  IF names = <<>>
        THEN [fed |-> [status |-> "raised", retrievers |-> <<>>,
                       error |-> "No collections available"],
              log |-> <<>>]
        ELSE IF built.log # <<>>
        THEN [fed |-> [status |-> "raised", retrievers |-> <<>>,
                       error |-> "Failed to load any collections"],
              log |-> built.log]
        ELSE [fed |-> [status |-> "ready", retrievers |-> built.retrievers,
                       error |-> ""],
              log |-> built.log]

\* __init__ (136-166): [fed, log].  collection_names is Optional[list];
\* `listed` is what storage_manager.list_collections() returns.
MultiCollectionRetriever_init(collection_names, verbose, st, listed, loads) ==
    LET names == IF collection_names = <<>> THEN listed
                 ELSE collection_names[1]
        built == InitLoop(names, 1, verbose, st, loads, <<>>, <<>>)
    IN  IF names = <<>>
        THEN [fed |-> [status |-> "raised", retrievers |-> <<>>,
                       error |-> "No collections available"],
              log |-> <<>>]
        ELSE IF built.retrievers = <<>>
        THEN [fed |-> [status |-> "raised", retrievers |-> <<>>,
                       error |-> "Failed to load any collections"],
              log |-> built.log]
        ELSE [fed |-> [status |-> "ready", retrievers |-> built.retrievers,
                       error |-> ""],
              log |-> built.log]

\* The loop of query_all (180-181) from the i-th retriever on:
\* [results, calls].  outs[i] is what the i-th retriever's index does.
RECURSIVE QueryAllLoop(_, _, _, _, _, _, _)
QueryAllLoop(retrievers, i, query_text, st, outs, res, cs) ==
    IF i > Len(retrievers) THEN [results |-> res, calls |-> cs]
    ELSE LET q == SmartRetriever_query(retrievers[i][2], query_text, <<>>,
                                       st, outs[i])
         IN  QueryAllLoop(retrievers, i + 1, query_text, st, outs,
                          DictSet(res, retrievers[i][1], q.response),
                          Append(cs, q.call))

\* A query_all that stops at the first collection whose query failed.
RECURSIVE QueryAllLoopStop(_, _, _, _, _, _, _)
QueryAllLoopStop(retrievers, i, query_text, st, outs, res, cs) ==
    IF i > Len(retrievers) THEN [results |-> res, calls |-> cs]
    ELSE LET q == SmartRetriever_query(retrievers[i][2], query_text, <<>>,
                                       st, outs[i])
         IN  IF ~q.response.retrieval_successful
             THEN [results |-> DictSet(res, retrievers[i][1], q.response),
                   calls |-> Append(cs, q.call)]
             ELSE QueryAllLoopStop(retrievers, i + 1, query_text, st, outs,
                          DictSet(res, retrievers[i][1], q.response),
                          Append(cs, q.call))

query_all_stops(self, query_text, st, outs) ==
    QueryAllLoopStop(self.retrievers, 1, query_text, st, outs, <<>>, <<>>)

\* A query_all whose queries all write the key of the first collection:
\* what is left is the last response under that key.
query_all_one_key(self, query_text, st, outs) ==
    LET all == QueryAllLoop(self.retrievers, 1, query_text, st, outs,
                            <<>>, <<>>)
    IN  [results |-> IF all.results = <<>> THEN <<>>
                     ELSE <<<<all.results[1][1],
                              all.results[Len(all.results)][2]>>>>,
         calls |-> all.calls]

\* query_all (168-183): [results, calls].
query_all(self, query_text, st, outs) ==
    QueryAllLoop(self.retrievers, 1, query_text, st, outs, <<>>, <<>>)

\* {k: v for k, v in results.items() if v.retrieval_successful} (198).
RECURSIVE Successful(_)
Successful(res) ==
    IF res = <<>> THEN <<>>
    ELSE IF Head(res)[2].retrieval_successful
         THEN <<Head(res)>> \o Successful(Tail(res))
         ELSE Successful(Tail(res))

\* max(successful.keys(), key=lambda k: len(successful[k].answer)) (205) over
\* a non-empty dict: the index of the first entry of maximal answer length.
RECURSIVE MaxByAnswer(_, _, _)
MaxByAnswer(d, i, best) ==
    IF i > Len(d) THEN best
    ELSE IF Len(d[i][2].answer) > Len(d[best][2].answer)
         THEN MaxByAnswer(d, i + 1, i)
         ELSE MaxByAnswer(d, i + 1, best)

\* The same with >=: the last entry of maximal answer length.
RECURSIVE MaxByAnswerLast(_, _, _)
MaxByAnswerLast(d, i, best) ==
    IF i > Len(d) THEN best
    ELSE IF Len(d[i][2].answer) >= Len(d[best][2].answer)
         THEN MaxByAnswerLast(d, i + 1, i)
         ELSE MaxByAnswerLast(d, i + 1, best)

\* A choice that prefers the last of several longest answers.
SelectBest_last(res) ==
    LET successful == Successful(res)
    IN  IF successful = <<>>
        THEN IF res = <<>>
             THEN [raised |-> <<"IndexError">>, value |-> <<>>]
             ELSE [raised |-> <<>>, value |-> DictValues(res)[1]]
        ELSE [raised |-> <<>>,
              value |-> successful[MaxByAnswerLast(successful, 2, 1)][2]]

\* A choice that returns the last failed result when nothing succeeded.
SelectBest_last_failed(res) ==
    LET successful == Successful(res)
    IN  IF successful = <<>>
        THEN IF res = <<>>
             THEN [raised |-> <<"IndexError">>, value |-> <<>>]
             ELSE [raised |-> <<>>, value |-> DictValues(res)[Len(res)]]
        ELSE [raised |-> <<>>,
              value |-> successful[MaxByAnswer(successful, 2, 1)][2]]

\* query_best after its query_all (197-207): [raised, value].
\* list(results.values())[0] raises IndexError on an empty dict.
SelectBest(res) ==
    LET successful == Successful(res)
    IN  IF successful = <<>>
        THEN IF res = <<>>
             THEN [raised |-> <<"IndexError">>, value |-> <<>>]
             ELSE [raised |-> <<>>, value |-> DictValues(res)[1]]
        ELSE [raised |-> <<>>,
              value |-> successful[MaxByAnswer(successful, 2, 1)][2]]

\* query_best (185-207): [results, calls, raised, value].
query_best(self, query_text, st, outs) ==
    LET all == query_all(self, query_text, st, outs)
        best == SelectBest(all.results)
    IN  [results |-> all.results, calls |-> all.calls,
         raised |-> best.raised, value |-> best.value]

(***************************************************************************)
(* Specification SpecMerge: merge_consecutive_pages applied to every       *)
(* ascending sequence of unique integers within the bounds.                *)
(***************************************************************************)
MergeDomain == (0 - MergeMaxNeg)..MergeMaxPage

InitMerge ==
    /\ pages \in {sorted(S) : S \in SUBSET MergeDomain}
    /\ ret = NoCall
    /\ settings = SettingsAsWritten
    /\ fed = Unbuilt
    /\ log = <<>>
    /\ results = <<>>
    /\ calls = <<>>
    /\ nodes = <<>>
    /\ platform = "posix"

Merge ==
    /\ ret = NoCall
    /\ ret' = [op |-> "merge_consecutive_pages",
               val |-> merge_consecutive_pages(pages)]
    /\ UNCHANGED <<pages, nodes, platform, settings, fed, log, results, calls>>

NextMerge == Merge

SpecMerge == InitMerge /\ [][NextMerge]_vars

(***************************************************************************)
(* Specification Spec: a federation is constructed and queried.            *)
(*                                                                         *)
(* A query builds its results from scratch (178) and reads nothing an      *)
(* earlier query wrote, so each query is taken from the state the          *)
(* construction leaves.                                                    *)
(***************************************************************************)
CollectionNames == {"c" \o ToString(i) : i \in 1..MaxCollections}

\* The lists over S of length at most n.
RECURSIVE ListsUpTo(_, _)
ListsUpTo(S, n) ==
    IF n = 0 THEN {<<>>}
    ELSE LET shorter == ListsUpTo(S, n - 1)
         IN  shorter \cup {Append(l, x) : l \in shorter, x \in S}

IsDupFree(l) == \A i, j \in 1..Len(l) : i # j => l[i] # l[j]

\* What list_collections() may return: the collections in storage.
Listings == {l \in ListsUpTo(CollectionNames, MaxCollections) : IsDupFree(l)}

\* The collection_names argument: None or an explicit list.
RequestedNames ==
    {<<>>} \cup {<<l>> : l \in ListsUpTo(CollectionNames, MaxRequested)}

QueryTexts == {"", "what is this document about?"}

\* The similarity_top_k argument of SmartRetriever.query.
TopKOverrides == {<<>>, <<0>>, <<3>>, <<-1>>}

Init ==
    /\ settings \in SettingsValues
    /\ fed = Unbuilt
    /\ log = <<>>
    /\ results = <<>>
    /\ calls = <<>>
    /\ ret = NoCall
    /\ pages = <<>>
    /\ nodes = <<>>
    /\ platform = "posix"

\* MultiCollectionRetriever(collection_names)
Construct ==
    /\ fed.status = "unbuilt"
    /\ \E collection_names \in RequestedNames :
       \E listed \in (IF collection_names = <<>> THEN Listings ELSE {<<>>}) :
          LET names == IF collection_names = <<>> THEN listed
                       ELSE collection_names[1]
          IN  \E loads \in [1..Len(names) -> LoadOutcomes] :
                 LET r == MultiCollectionRetriever_init(
                              collection_names, FALSE, settings, listed, loads)
                 IN  /\ fed' = r.fed
                     /\ log' = r.log
                     /\ ret' = [op |-> "init", names |-> names,
                                loads |-> loads]
    /\ UNCHANGED <<pages, nodes, platform, settings, results, calls>>

\* fed.query_all(query_text)
QueryAll ==
    /\ fed.status = "ready"
    /\ ret.op = "init"
    /\ \E query_text \in QueryTexts :
       \E outs \in [1..Len(fed.retrievers) -> FedOutcomes] :
          LET r == query_all(fed, query_text, settings, outs)
          IN  /\ results' = r.results
              /\ calls' = r.calls
              /\ ret' = [op |-> "query_all", query_text |-> query_text,
                         outs |-> outs, raised |-> <<>>,
                         value |-> r.results]
    /\ UNCHANGED <<pages, nodes, platform, settings, fed, log>>

\* fed.query_best(query_text)
QueryBest ==
    /\ fed.status = "ready"
    /\ ret.op = "init"
    /\ \E query_text \in QueryTexts :
       \E outs \in [1..Len(fed.retrievers) -> FedOutcomes] :
          LET r == query_best(fed, query_text, settings, outs)
          IN  /\ results' = r.results
              /\ calls' = r.calls
              /\ ret' = [op |-> "query_best", query_text |-> query_text,
                         outs |-> outs, raised |-> r.raised,
                         value |-> r.value]
    /\ UNCHANGED <<pages, nodes, platform, settings, fed, log>>

\* fed.retrievers[name].query(query_text, similarity_top_k)
Query ==
    /\ fed.status = "ready"
    /\ ret.op = "init"
    /\ \E i \in 1..Len(fed.retrievers) :
       \E query_text \in QueryTexts :
       \E similarity_top_k \in TopKOverrides :
       \E out \in QueryOutcomes :
          LET r == SmartRetriever_query(fed.retrievers[i][2], query_text,
                                        similarity_top_k, settings, out)
          IN  /\ results' = <<>>
              /\ calls' = <<r.call>>
              /\ ret' = [op |-> "query", query_text |-> query_text,
                         similarity_top_k |-> similarity_top_k,
                         self |-> fed.retrievers[i][2],
                         out |-> out, value |-> r.response]
    /\ UNCHANGED <<pages, nodes, platform, settings, fed, log>>

Next == Construct \/ QueryAll \/ QueryBest \/ Query

Spec == Init /\ [][Next]_vars

(***************************************************************************)
(* Specification SpecCite: MetadataManager and SourceFormatter applied to  *)
(* a list of retrieved nodes.  The functions keep no state: each call is   *)
(* taken on the list as given.                                             *)
(***************************************************************************)
FileA == "/docs/report.pdf"
NameA == "report.pdf"
FileB == "C:\\docs\\Pages 1-2.pdf"
NameB == "Pages 1-2.pdf"

\* The values a page or start_page key may hold (or the key is missing).
PageValues == {<<>>} \cup {<<p>> : p \in (0 - MaxNegPage)..MaxPage}

\* Every single node over the page values, with or without names.
AllNodes ==
    {NoMetadataNode} \cup
    {Node(page, start_page, filename, file_path) :
        page \in PageValues, start_page \in PageValues,
        filename \in {<<>>, <<"">>, <<NameA>>},
        file_path \in {<<>>, <<"">>, <<FileA>>}}

\* The nodes that lists are made of: pages of document A, a node whose
\* page is only in start_page and that names document B without its path,
\* one with a negative page and empty names, one of document B with its
\* path, and nodes without page or without metadata.
ListNodes ==
    {Node(<<p>>, <<>>, <<NameA>>, <<FileA>>) : p \in 1..MaxPage} \cup
    {NoMetadataNode,
     Node(<<>>, <<>>, <<>>, <<>>),
     Node(<<0>>, <<2>>, <<NameB>>, <<>>),
     Node(<<0 - 1>>, <<>>, <<"">>, <<"">>),
     Node(<<MaxPage>>, <<>>, <<NameB>>, <<FileB>>)}

InitCite ==
    /\ nodes \in ListsUpTo(ListNodes, MaxNodes) \cup {<<n>> : n \in AllNodes}
    /\ platform \in {"posix", "windows", "posix_no_cwd"}
    /\ ret = NoCall
    /\ pages = <<>>
    /\ settings = SettingsAsWritten
    /\ fed = Unbuilt
    /\ log = <<>>
    /\ results = <<>>
    /\ calls = <<>>

Returns(r) ==
    /\ ret = NoCall
    /\ ret' = r
    /\ UNCHANGED <<pages, nodes, platform, settings, fed, log, results, calls>>

\* The exception a call of `op` lets through to its caller.
Raised(op) == [op |-> "raise", in |-> op, exc |-> "FileNotFoundError"]

\* MetadataManager.extract_page_from_node(nodes[i])
ExtractPage ==
    \E i \in 1..Len(nodes) :
        Returns([op |-> "extract_page_from_node", node |-> nodes[i],
                 val |-> extract_page_from_node(nodes[i])])

\* MetadataManager.extract_pages_from_nodes(nodes)
ExtractPages ==
    Returns([op |-> "extract_pages_from_nodes",
             val |-> extract_pages_from_nodes(nodes)])

\* MetadataManager.extract_file_path_from_nodes(nodes)
ExtractFilePath ==
    Returns([op |-> "extract_file_path_from_nodes",
             val |-> extract_file_path_from_nodes(nodes)])

\* MetadataManager.extract_filename_from_nodes(nodes)
ExtractFilename ==
    Returns([op |-> "extract_filename_from_nodes",
             val |-> extract_filename_from_nodes(nodes)])

\* SourceFormatter().format_for_terminal(nodes, show_tips)
FormatTerminal ==
    \E show_tips \in BOOLEAN :
        Returns(IF FormatterRaises(nodes, platform)
                THEN Raised("format_for_terminal")
                ELSE [op |-> "format_for_terminal", show_tips |-> show_tips,
                      val |-> format_for_terminal(nodes, show_tips, platform)])

\* SourceFormatter().format_for_plain_text(nodes)
FormatPlainText ==
    Returns(IF FormatterRaises(nodes, platform)
            THEN Raised("format_for_plain_text")
            ELSE [op |-> "format_for_plain_text",
                  val |-> format_for_plain_text(nodes, platform)])

\* SourceFormatter().format_for_json(nodes)
FormatJson ==
    Returns(IF FormatterRaises(nodes, platform)
            THEN Raised("format_for_json")
            ELSE [op |-> "format_for_json",
                  val |-> format_for_json(nodes, platform)])

\* SourceFormatter().format_for_html(nodes)
FormatHtml ==
    Returns(IF FormatterRaises(nodes, platform)
            THEN Raised("format_for_html")
            ELSE [op |-> "format_for_html",
                  val |-> format_for_html(nodes, platform)])

NextCite ==
    ExtractPage \/ ExtractPages \/ ExtractFilePath \/ ExtractFilename
        \/ FormatTerminal \/ FormatPlainText \/ FormatJson \/ FormatHtml

SpecCite == InitCite /\ [][NextCite]_vars

(***************************************************************************)
(* Claims about merge_consecutive_pages (checked under SpecMerge).         *)
(***************************************************************************)
Elems(s) == {s[i] : i \in 1..Len(s)}

MergeReturned == ret.op = "merge_consecutive_pages"

\* C1: for every ascending sequence P of unique integers the ranges
\* returned by merge_consecutive_pages(P) are (a) pairwise non-overlapping,
\* (b) cover exactly the elements of P (each element of P is inside a range,
\* each integer inside a range is an element of P), (c) sorted by start
\* ascending, (d) have start and end in P with start <= end.
C1_MergePartitionsPages ==
    MergeReturned =>
        LET R == ret.val
            P == Elems(pages)
        IN  /\ \A i, j \in 1..Len(R) :
                  i # j => (R[i][2] < R[j][1] \/ R[j][2] < R[i][1])
            /\ \A p \in P : \E i \in 1..Len(R) : R[i][1] <= p /\ p <= R[i][2]
            /\ \A i \in 1..Len(R) : \A n \in R[i][1]..R[i][2] : n \in P
            /\ \A i \in 1..(Len(R) - 1) : R[i][1] < R[i + 1][1]
            /\ \A i \in 1..Len(R) :
                  R[i][1] \in P /\ R[i][2] \in P /\ R[i][1] <= R[i][2]

\* A merge of pages with a gap and a run: several ranges, one of them wide.
C1_Witness ==
    /\ MergeReturned
    /\ Len(pages) >= 4
    /\ Len(ret.val) >= 2
    /\ \E i \in 1..Len(ret.val) : ret.val[i][1] < ret.val[i][2]

\* C2: the ranges are maximal: two adjacent output ranges are separated by
\* a gap (next.start >= previous.end + 2), the final open range is always
\* emitted (the last range ends at the last page), empty input gives the
\* empty sequence, and the documented examples hold.
C2_MergeRangesMaximal ==
    /\ MergeReturned =>
          LET R == ret.val
          IN  /\ \A i \in 1..(Len(R) - 1) : R[i + 1][1] >= R[i][2] + 2
              /\ pages = <<>> => R = <<>>
              /\ pages # <<>> =>
                    /\ R # <<>>
                    /\ R[Len(R)][2] = pages[Len(pages)]
                    /\ R[1][1] = pages[1]
    /\ merge_consecutive_pages(<<1, 2, 3, 7, 8>>) = << <<1, 3>>, <<7, 8>> >>
    /\ merge_consecutive_pages(<<5, 10, 15>>)
          = << <<5, 5>>, <<10, 10>>, <<15, 15>> >>
    /\ merge_consecutive_pages(<<5>>) = << <<5, 5>> >>
    /\ merge_consecutive_pages(<<>>) = <<>>

\* Pages 1,2,3 then 5,6: the run 1..3 is not split and 5..6 is emitted last.
C2_Witness ==
    /\ MergeReturned
    /\ pages = <<1, 2, 3, 5, 6>>
    /\ ret.val = << <<1, 3>>, <<5, 6>> >>

(***************************************************************************)
(* Claims about the retrievers (checked under Spec).                       *)
(***************************************************************************)
QueryResponseFields ==
    {"answer", "source_nodes", "collection_name", "retrieval_successful",
     "error_message"}

IsQueryResponse(v) == DOMAIN v = QueryResponseFields

SuccessfulIndexes(res) ==
    {i \in 1..Len(res) : res[i][2].retrieval_successful}

\* C3: when at least one collection's query succeeds, query_best returns the
\* successful result with the longest answer, the first one in insertion
\* order among those of equal maximal length; a failed result is never
\* returned while a successful one exists.
C3_BestIsFirstLongestSuccess ==
    (ret.op = "query_best" /\ SuccessfulIndexes(results) # {}) =>
        /\ ret.raised = <<>>
        /\ ret.value.retrieval_successful
        /\ \E j \in SuccessfulIndexes(results) :
              /\ ret.value = results[j][2]
              /\ \A i \in SuccessfulIndexes(results) :
                    /\ Len(results[i][2].answer) <= Len(results[j][2].answer)
                    /\ i < j => Len(results[i][2].answer)
                                   < Len(results[j][2].answer)

\* Two collections inserted as c2, c1 answer with the same length: c2 wins.
C3_Witness ==
    /\ ret.op = "query_best"
    /\ DictKeys(results) = <<"c2", "c1">>
    /\ SuccessfulIndexes(results) = {1, 2}
    /\ Len(results[1][2].answer) = Len(results[2][2].answer)
    /\ ret.value.collection_name = "c2"

\* C4: when no collection's query succeeds, query_best returns the failed
\* result of the first collection in insertion order; query_best on a
\* constructed federation always returns a QueryResponse: it never raises
\* and never returns an absent result.
C4_BestAlwaysReturnsAResponse ==
    ret.op = "query_best" =>
        /\ ret.raised = <<>>
        /\ IsQueryResponse(ret.value)
        /\ SuccessfulIndexes(results) = {} =>
              /\ ret.value = results[1][2]
              /\ ~ret.value.retrieval_successful
              /\ ret.value.collection_name = fed.retrievers[1][1]

\* Both collections of a federation of two fail: the first one's failure
\* is returned.
C4_Witness ==
    /\ ret.op = "query_best"
    /\ Len(results) = 2
    /\ SuccessfulIndexes(results) = {}
    /\ ret.value = results[1][2]
    /\ ret.value # results[2][2]

\* The i-th SmartRetriever of a construction initialised.
Initialised(i) == settings.ENABLE_AUTO_MERGING # <<>> /\ ret.loads[i].ok

\* C5: constructing a MultiCollectionRetriever raises only if the set of
\* collection names (requested or listed by storage) is empty or if every
\* named collection fails to initialise; otherwise the federation holds
\* exactly the names whose SmartRetriever initialised, each once, and each
\* failed attempt is skipped with a warning.
C5_ConstructionRaisesOnlyWhenNothingLoads ==
    ret.op = "init" =>
        LET n == Len(ret.names)
            failed == {i \in 1..n : ~Initialised(i)}
        IN  /\ fed.status \in {"ready", "raised"}
            /\ fed.status = "raised" <=> (n = 0 \/ failed = 1..n)
            /\ fed.status = "ready" =>
                  /\ Elems(DictKeys(fed.retrievers))
                        = {ret.names[i] : i \in (1..n) \ failed}
                  /\ IsDupFree(DictKeys(fed.retrievers))
                  /\ \A j \in 1..Len(fed.retrievers) :
                        fed.retrievers[j][2].collection_name
                            = fed.retrievers[j][1]
                  /\ Len(log) = Cardinality(failed)
                  /\ \A i \in failed :
                        \E j \in 1..Len(log) :
                            /\ log[j].collection = ret.names[i]
                            /\ j = Cardinality({h \in failed : h <= i})

\* One name fails and another loads: a federation of size 1, one warning.
C5_Witness ==
    /\ ret.op = "init"
    /\ Len(ret.names) = 2
    /\ ret.names[1] # ret.names[2]
    /\ fed.status = "ready"
    /\ Len(fed.retrievers) = 1
    /\ Len(log) = 1
    /\ log[1].collection # fed.retrievers[1][1]

\* C6: query_all queries every constituent retriever exactly once and
\* returns one entry per collection, keyed by collection name in insertion
\* order, each entry's collection_name being its key; an entry depends on
\* its own collection's index only, so one collection's failure leaves the
\* other entries as they would be without it; query_all does not raise.
C6_QueryAllIsolatesCollections ==
    ret.op = "query_all" =>
        /\ ret.raised = <<>>
        /\ ret.value = results
        /\ DictKeys(results) = DictKeys(fed.retrievers)
        /\ Len(calls) = Len(fed.retrievers)
        /\ \A i \in 1..Len(fed.retrievers) :
              /\ IsQueryResponse(results[i][2])
              /\ results[i][2].collection_name = results[i][1]
              /\ calls[i].collection_name = fed.retrievers[i][1]
              /\ calls[i].query_text = ret.query_text
              /\ ret.outs[i].kind = "ok" =>
                    /\ results[i][2].retrieval_successful
                    /\ results[i][2].answer = ret.outs[i].answer
              /\ ret.outs[i].kind # "ok" =>
                    /\ ~results[i][2].retrieval_successful
                    /\ results[i][2].error_message = <<ret.outs[i].msg>>

\* The first collection fails and the second still answers.
C6_Witness ==
    /\ ret.op = "query_all"
    /\ Len(results) = 2
    /\ ~results[1][2].retrieval_successful
    /\ results[2][2].retrieval_successful
    /\ results[2][2].answer = "bbb"

\* The QueryResponse values the last call returned.
Returned ==
    IF ret.op = "query_all" THEN Elems(DictValues(ret.value))
    ELSE IF ret.op \in {"query", "query_best"} THEN {ret.value}
    ELSE {}

\* C7: every QueryResponse returned by SmartRetriever.query, query_all or
\* query_best with retrieval_successful false has answer "" and no source
\* nodes, and error_message is set only when retrieval_successful is false.
C7_FailedResponsesAreEmpty ==
    \A r \in Returned :
        /\ ~r.retrieval_successful => (r.answer = "" /\ r.source_nodes = <<>>)
        /\ r.error_message # <<>> => ~r.retrieval_successful

\* The index answered but the response's source_nodes is None: the failure
\* is returned with an empty answer.
C7_Witness ==
    /\ ret.op = "query"
    /\ ret.out.kind = "ok"
    /\ ret.out.answer # ""
    /\ ~ret.value.retrieval_successful
    /\ ret.value.answer = ""

\* C8: SmartRetriever.query never raises: a failure raised while building
\* the query engine or executing the query is returned as a QueryResponse
\* with retrieval_successful false, the failure's message and the
\* retriever's collection; on success it returns retrieval_successful true
\* with the synthesized answer and the retrieved source nodes.
C8_QueryTurnsFailuresIntoData ==
    ret.op = "query" =>
        /\ IsQueryResponse(ret.value)
        /\ ret.value.collection_name = ret.self.collection_name
        /\ ret.out.kind \in {"raise_engine", "raise_query"} =>
              /\ ~ret.value.retrieval_successful
              /\ ret.value.error_message = <<ret.out.msg>>
        /\ (ret.out.kind = "ok" /\ ret.out.sn # "none") =>
              /\ ret.value.retrieval_successful
              /\ ret.value.answer = ret.out.answer
              /\ ret.value.source_nodes
                    = (IF ret.out.sn = "list" THEN ret.out.nodes ELSE <<>>)

\* Building the query engine raised: the message comes back as data.
C8_Witness ==
    /\ ret.op = "query"
    /\ ret.out.kind = "raise_engine"
    /\ ret.value.error_message = <<"malformed embeddings">>
    /\ ~ret.value.retrieval_successful

(***************************************************************************)
(* Reading the page ranges back out of a formatter's output.               *)
(***************************************************************************)
StartsWith(s, pre) == Len(s) >= Len(pre) /\ SubSeq(s, 1, Len(pre)) = pre
EndsWith(s, suf) ==
    Len(s) >= Len(suf) /\ SubSeq(s, Len(s) - Len(suf) + 1, Len(s)) = suf
DropPrefix(s, pre) == SubSeq(s, Len(pre) + 1, Len(s))
DropSuffix(s, suf) == SubSeq(s, 1, Len(s) - Len(suf))

\* s.split("\n")
Lines(s) ==
    LET breaks == sorted({0, Len(s) + 1}
                         \cup {i \in 1..Len(s) : Char(s, i) = "\n"})
    IN  [k \in 1..(Len(breaks) - 1) |->
            SubSeq(s, breaks[k] + 1, breaks[k + 1] - 1)]

Digits == {"0", "1", "2", "3", "4", "5", "6", "7", "8", "9"}
DigitValue(c) == CHOOSE d \in 0..9 : ToString(d) = c

IsNumeral(s) == Len(s) > 0 /\ \A i \in 1..Len(s) : Char(s, i) \in Digits

RECURSIVE NumeralValue(_)
NumeralValue(s) ==
    IF Len(s) = 0 THEN 0
    ELSE 10 * NumeralValue(SubSeq(s, 1, Len(s) - 1))
         + DigitValue(Char(s, Len(s)))

\* A decimal integer with an optional minus sign: Optional[int].
ParseInt(s) ==
    IF IsNumeral(s) THEN <<NumeralValue(s)>>
    ELSE IF StartsWith(s, "-") /\ IsNumeral(DropPrefix(s, "-"))
         THEN <<0 - NumeralValue(DropPrefix(s, "-"))>>
         ELSE <<>>

\* The ranges that "Page n" or "Pages n-m" can stand for.
PageTextRanges(t) ==
    IF StartsWith(t, "Page ")
    THEN LET n == ParseInt(DropPrefix(t, "Page "))
         IN  IF n = <<>> THEN {} ELSE {<<n[1], n[1]>>}
    ELSE IF StartsWith(t, "Pages ")
    THEN LET r == DropPrefix(t, "Pages ")
         IN  {<<ParseInt(SubSeq(r, 1, k - 1))[1],
                ParseInt(SubSeq(r, k + 1, Len(r)))[1]>> :
                 k \in {j \in 2..(Len(r) - 1) :
                           /\ Char(r, j) = "-"
                           /\ ParseInt(SubSeq(r, 1, j - 1)) # <<>>
                           /\ ParseInt(SubSeq(r, j + 1, Len(r))) # <<>>}}
    ELSE {}

\* The page texts of a formatter's output are read from its page lines;
\* a page text that does not read as exactly one range is kept as <<>>.
ReadRange(t) ==
    IF Cardinality(PageTextRanges(t)) = 1
    THEN CHOOSE r \in PageTextRanges(t) : TRUE
    ELSE <<>>

\* The page text of a line of the plain-text output, <<>> for other lines.
PlainPageText(line) ==
    IF StartsWith(line, "  " \o IconLink \o " ")
    THEN <<DropPrefix(line, "  " \o IconLink \o " ")>>
    ELSE IF StartsWith(line, "  " \o IconPage \o " ")
    THEN <<DropPrefix(line, "  " \o IconPage \o " ")>>
    ELSE <<>>

\* The same for the terminal output: the line is wrapped in colour codes.
TerminalPageText(line) ==
    IF StartsWith(line, ForeYellow \o "  ") /\ EndsWith(line, StyleResetAll)
    THEN PlainPageText(DropSuffix(DropPrefix(line, ForeYellow),
                                  StyleResetAll))
    ELSE <<>>

\* The text after the last ">" of s.
AfterLastGt(s) ==
    LET gts == {i \in 1..Len(s) : Char(s, i) = ">"}
    IN  IF gts = {} THEN s
        ELSE SubSeq(s, (CHOOSE i \in gts : \A j \in gts : j <= i) + 1, Len(s))

\* The same for the HTML output: the text of a list item or of its anchor.
HtmlPageText(line) ==
    IF StartsWith(line, "    <li>") /\ EndsWith(line, "</li>")
    THEN LET item == DropSuffix(DropPrefix(line, "    <li>"), "</li>")
         IN  IF StartsWith(item, "<a href=\"") /\ EndsWith(item, "</a>")
             THEN <<AfterLastGt(DropSuffix(item, "</a>"))>>
             ELSE <<item>>
    ELSE <<>>

\* The ranges of the page lines of a sequence of Optional page texts.
RECURSIVE RangesOfTexts(_)
RangesOfTexts(ts) ==
    IF ts = <<>> THEN <<>>
    ELSE IF Head(ts) = <<>> THEN RangesOfTexts(Tail(ts))
         ELSE <<ReadRange(Head(ts)[1])>> \o RangesOfTexts(Tail(ts))

PlainRanges(text) ==
    LET ls == Lines(text)
    IN  RangesOfTexts([i \in 1..Len(ls) |-> PlainPageText(ls[i])])
TerminalRanges(text) ==
    LET ls == Lines(text)
    IN  RangesOfTexts([i \in 1..Len(ls) |-> TerminalPageText(ls[i])])
HtmlRanges(text) ==
    LET ls == Lines(text)
    IN  RangesOfTexts([i \in 1..Len(ls) |-> HtmlPageText(ls[i])])
JsonRanges(record) ==
    [i \in 1..Len(record.page_ranges) |->
        <<record.page_ranges[i].start_page, record.page_ranges[i].end_page>>]
JsonTextRanges(record) ==
    [i \in 1..Len(record.page_ranges) |->
        ReadRange(record.page_ranges[i].page_text)]

(***************************************************************************)
(* Claims about the citations (checked under SpecCite).                    *)
(***************************************************************************)
\* C9: for one list of nodes the four formatters (terminal, plain text,
\* JSON, HTML) emit the same sequence of (start, end) page ranges in the
\* same order; the (start_page, end_page) pairs of format_for_json equal
\* the ranges read back from the page lines of format_for_plain_text.
C9_FormattersEmitTheSameRanges ==
    LET json == JsonRanges(format_for_json(nodes, platform))
        plain == PlainRanges(format_for_plain_text(nodes, platform))
        terminal == TerminalRanges(ret.val)
        html == HtmlRanges(ret.val)
    IN  /\ ret.op = "format_for_plain_text" =>
              PlainRanges(ret.val) = json
        /\ ret.op = "format_for_terminal" =>
              (terminal = json /\ terminal = plain)
        /\ ret.op = "format_for_html" => (html = json /\ html = plain)
        /\ ret.op = "format_for_json" =>
              (JsonRanges(ret.val) = plain
               /\ JsonTextRanges(ret.val) = plain)

\* An HTML citation with links, a run of pages and a gap.
C9_Witness ==
    /\ ret.op = "format_for_html"
    /\ extract_file_path_from_nodes(nodes) # <<>>
    /\ LET html == HtmlRanges(ret.val)
       IN  /\ Len(html) >= 2
           /\ \E i \in 1..Len(html) : html[i][1] < html[i][2]

\* C10 (as claimed): extract_page_from_node reads `page`, falling back to
\* `start_page` when `page` is absent or falsy; it returns None when neither
\* key is present or when the value is zero or non-positive, and never
\* raises on missing metadata ({'start_page': 9} gives 9, a node with no
\* relevant keys gives None).
C10_ExtractPageNoneUnlessPositive ==
    /\ ret.op = "extract_page_from_node" =>
          LET md == ret.node.metadata
              value == IF md.page # <<>> /\ md.page[1] # 0 THEN md.page
                       ELSE md.start_page
          IN  IF ret.node.has_metadata /\ value # <<>> /\ value[1] > 0
              THEN ret.val = value
              ELSE ret.val = <<>>
    /\ extract_page_from_node(Node(<<>>, <<9>>, <<>>, <<>>)) = <<9>>
    /\ extract_page_from_node(Node(<<>>, <<>>, <<>>, <<>>)) = <<>>

(***************************************************************************)
(* Claims about the scans of MetadataManager (checked under SpecCite).     *)
(***************************************************************************)
\* The indexes of the nodes for which extract_page_from_node yields a page.
PagedIndexes(ns) ==
    {i \in 1..Len(ns) : extract_page_from_node(ns[i]) # <<>>}

\* C11: extract_pages_from_nodes returns a strictly ascending sequence
\* without duplicates that contains exactly the page numbers that
\* extract_page_from_node yields for the given nodes; nodes without a page
\* contribute nothing, and the empty list gives the empty list.
C11_PagesAscendingUniqueExact ==
    ret.op = "extract_pages_from_nodes" =>
        /\ \A i \in 1..(Len(ret.val) - 1) : ret.val[i] < ret.val[i + 1]
        /\ Elems(ret.val) =
               {extract_page_from_node(nodes[i])[1] : i \in PagedIndexes(nodes)}
        /\ (nodes = <<>> => ret.val = <<>>)

\* Pages given out of order, with a repeated page or a node without one.
C11_Witness ==
    /\ ret.op = "extract_pages_from_nodes"
    /\ Len(ret.val) >= 2
    /\ Len(nodes) > Len(ret.val)
    /\ \E i, j \in PagedIndexes(nodes) :
          /\ i < j
          /\ extract_page_from_node(nodes[i])[1]
                 > extract_page_from_node(nodes[j])[1]

(***************************************************************************)
(* Claims about the structured record (checked under SpecCite).            *)
(***************************************************************************)
\* Some node of ns carries a non-empty file_path.
SomeFilePath(ns) ==
    \E i \in 1..Len(ns) :
        /\ ns[i].has_metadata
        /\ ns[i].metadata.file_path \notin {<<>>, <<"">>}

\* C12: in the record of format_for_json, has_links is true iff a file
\* path was found among the nodes, and every entry of page_ranges carries
\* the keys link and file_path iff has_links is true: all entries have
\* them or none has.
C12_HasLinksIffEveryEntryLinked ==
    ret.op = "format_for_json" =>
        /\ ret.val.has_links = SomeFilePath(nodes)
        /\ \A i \in 1..Len(ret.val.page_ranges) :
              /\ (ret.val.page_ranges[i].link # <<>>) = ret.val.has_links
              /\ (ret.val.page_ranges[i].file_path # <<>>)
                     = ret.val.has_links

\* A record with links on several ranges, from nodes of which one has no
\* usable file_path.
C12_Witness ==
    /\ ret.op = "format_for_json"
    /\ ret.val.has_links
    /\ Len(ret.val.page_ranges) >= 2
    /\ \E i \in 1..Len(nodes) :
          ~nodes[i].has_metadata
              \/ nodes[i].metadata.file_path \in {<<>>, <<"">>}

\* C13: missing metadata is never raised as an exception.  For a list of
\* nodes of which none yields a page number (the empty list and nodes
\* lacking page, filename or file_path included) every formatter returns
\* its "no page information" sentinel: a sentinel string for the plain,
\* terminal and HTML shapes, and for the record an empty page_ranges with
\* total_pages_referenced 0; no range and no link is built.
C13_NoPagesGiveTheSentinel ==
    PagedIndexes(nodes) = {} =>
        /\ ret.op # "raise"
        /\ ret.op = "format_for_plain_text" =>
              ret.val = "\n[U+1F4C4] No page information available"
        /\ ret.op = "format_for_terminal" =>
              ret.val = "\n\\x1b[33m[U+1F4C4] No page information available\\x1b[0m"
        /\ ret.op = "format_for_html" =>
              ret.val = "<p>[U+1F4C4] No page information available</p>"
        /\ ret.op = "format_for_json" =>
              /\ ret.val.page_ranges = <<>>
              /\ ret.val.total_pages_referenced = 0

\* The plain-text sentinel for nodes that name a file without any page.
C13_Witness ==
    /\ ret.op = "format_for_plain_text"
    /\ nodes # <<>>
    /\ PagedIndexes(nodes) = {}
    /\ SomeFilePath(nodes)

\* The index of the first node of ns whose key `key` is present and
\* non-empty, as a set: empty when no node has one.
FirstIndexWith(ns, key) ==
    {i \in 1..Len(ns) :
        /\ ns[i].has_metadata /\ ns[i].metadata[key] \notin {<<>>, <<"">>}
        /\ \A j \in 1..(i - 1) :
              ~ns[j].has_metadata \/ ns[j].metadata[key] \in {<<>>, <<"">>}}

\* C14: extract_file_path_from_nodes and extract_filename_from_nodes each
\* return the first non-empty value of their key found scanning the nodes
\* in order (absent for the path, "unknown.pdf" for the filename, when no
\* node has one).  Nodes of different documents do not make them fail, and
\* the scans are independent: the record of format_for_json names the
\* filename of one node and the file path of another when these are the
\* first to carry each.
C14_FirstNonEmptyValueOfEachKey ==
    LET paths == FirstIndexWith(nodes, "file_path")
        names == FirstIndexWith(nodes, "filename")
        path == IF paths = {} THEN <<>>
                ELSE nodes[CHOOSE i \in paths : TRUE].metadata.file_path
        name == IF names = {} THEN "unknown.pdf"
                ELSE nodes[CHOOSE i \in names : TRUE].metadata.filename[1]
    IN  /\ ret.op = "extract_file_path_from_nodes" => ret.val = path
        /\ ret.op = "extract_filename_from_nodes" => ret.val = name
        /\ ret.op = "format_for_json" =>
              /\ ret.val.filename = name
              /\ \A i \in 1..Len(ret.val.page_ranges) :
                    ret.val.page_ranges[i].file_path = path

\* A record whose filename and file path come from different nodes, of
\* different documents.
C14_Witness ==
    /\ ret.op = "format_for_json"
    /\ ret.val.page_ranges # <<>>
    /\ \E i \in FirstIndexWith(nodes, "filename") :
       \E j \in FirstIndexWith(nodes, "file_path") :
          /\ i # j
          /\ nodes[j].metadata.filename \notin {<<>>, <<"">>}
          /\ nodes[j].metadata.filename # nodes[i].metadata.filename

\* C15 (as claimed): when a file path found in the nodes cannot be turned
\* into a URI (link generation fails), the formatters treat it as "no link
\* available": the citation is still produced with its page ranges, the
\* link and file_path fields are omitted, and the failure does not abort
\* the whole citation.
C15_FailedLinkIsNoLink ==
    LET file_path == extract_file_path_from_nodes(nodes)
        ranges == merge_consecutive_pages(extract_pages_from_nodes(nodes))
    IN  (file_path # <<>> /\ generate_file_url_raises(file_path[1], platform))
        =>
        /\ ret.op # "raise"
        /\ ret.op = "format_for_json" =>
              /\ JsonRanges(ret.val) = ranges
              /\ \A i \in 1..Len(ret.val.page_ranges) :
                    /\ ret.val.page_ranges[i].link = <<>>
                    /\ ret.val.page_ranges[i].file_path = <<>>
        /\ ret.op = "format_for_plain_text" => PlainRanges(ret.val) = ranges
        /\ ret.op = "format_for_terminal" =>
              TerminalRanges(ret.val) = ranges
        /\ ret.op = "format_for_html" => HtmlRanges(ret.val) = ranges

\* The number of pages that the entries of page_ranges[k..] span.
RECURSIVE PagesSpanned(_, _)
PagesSpanned(page_ranges, k) ==
    IF k > Len(page_ranges) THEN 0
    ELSE page_ranges[k].end_page - page_ranges[k].start_page + 1
         + PagesSpanned(page_ranges, k + 1)

\* C18: in the record of format_for_json, total_pages_referenced equals the
\* number of distinct page numbers extracted from the nodes, which equals
\* the sum over page_ranges of end_page - start_page + 1; page_ranges is
\* empty iff total_pages_referenced is 0.
C18_TotalCountsTheDistinctPages ==
    ret.op = "format_for_json" =>
        /\ ret.val.total_pages_referenced =
               Cardinality({extract_page_from_node(nodes[i])[1] :
                               i \in PagedIndexes(nodes)})
        /\ ret.val.total_pages_referenced
               = PagesSpanned(ret.val.page_ranges, 1)
        /\ (ret.val.page_ranges = <<>>)
               <=> (ret.val.total_pages_referenced = 0)

\* A record for more nodes than distinct pages, with a range of several
\* pages.
C18_Witness ==
    /\ ret.op = "format_for_json"
    /\ ret.val.total_pages_referenced >= 2
    /\ Len(nodes) > ret.val.total_pages_referenced
    /\ \E k \in 1..Len(ret.val.page_ranges) :
          ret.val.page_ranges[k].start_page < ret.val.page_ranges[k].end_page

(***************************************************************************)
(* Claims about the links of a citation (checked under SpecCite).  The     *)
(* links are read back from what the formatters return.                    *)
(***************************************************************************)
\* The text of s before its first double quote (all of s without one).
BeforeQuote(s) ==
    LET qs == {i \in 1..Len(s) : Char(s, i) = "\""}
    IN  IF qs = {} THEN s ELSE SubSeq(s, 1, SetMin(qs) - 1)

\* The link of a line of a formatter's output, <<>> for lines without one.
PlainLink(line) ==
    IF StartsWith(line, "     file:") THEN <<DropPrefix(line, "     ")>>
    ELSE <<>>

TerminalLink(line) ==
    IF StartsWith(line, "     " \o ForeBlue) /\ EndsWith(line, StyleResetAll)
    THEN <<DropSuffix(DropPrefix(line, "     " \o ForeBlue), StyleResetAll)>>
    ELSE <<>>

HtmlLink(line) ==
    IF StartsWith(line, "    <li><a href=\"")
    THEN <<BeforeQuote(DropPrefix(line, "    <li><a href=\""))>>
    ELSE <<>>

\* The values of a sequence of Optionals, in order.
RECURSIVE Present(_)
Present(os) ==
    IF os = <<>> THEN <<>> ELSE Head(os) \o Present(Tail(os))

PlainLinks(text) ==
    LET ls == Lines(text)
    IN  Present([i \in 1..Len(ls) |-> PlainLink(ls[i])])
TerminalLinks(text) ==
    LET ls == Lines(text)
    IN  Present([i \in 1..Len(ls) |-> TerminalLink(ls[i])])
HtmlLinks(text) ==
    LET ls == Lines(text)
    IN  Present([i \in 1..Len(ls) |-> HtmlLink(ls[i])])
JsonLinks(record) ==
    Present([i \in 1..Len(record.page_ranges) |->
                record.page_ranges[i].link])

\* The file:// address of a file on the host, without a fragment.
FileAddress(file_path, pf) ==
    TheOne({(IF PathDrive(path, pf) # "" THEN "file:///" ELSE "file://")
            \o as_posix(path, pf) :
            path \in {PathAbsolute(file_path, pf)}})

\* The links a citation of `ranges` has when each range links to its start
\* page in the file `file_path` (no links without a file path).
LinksToStartPages(ranges, file_path, pf) ==
    IF file_path = <<>> THEN <<>>
    ELSE [i \in 1..Len(ranges) |->
             FileAddress(file_path[1], pf) \o "#page="
                 \o ToString(ranges[i][1])]

\* C19: whenever a formatter emits a link for a page range, the link
\* addresses the start page of the range (fragment #page={start}) in the
\* single file path returned by extract_file_path_from_nodes; every range
\* of one citation links to that same file, even if the page number came
\* from a node with a different file_path.
C19_LinksAddressStartPageOfOneFile ==
    LET file_path == extract_file_path_from_nodes(nodes)
    IN  /\ ret.op = "format_for_plain_text" =>
              PlainLinks(ret.val)
                  = LinksToStartPages(PlainRanges(ret.val), file_path, platform)
        /\ ret.op = "format_for_terminal" =>
              TerminalLinks(ret.val)
                  = LinksToStartPages(TerminalRanges(ret.val), file_path,
                                      platform)
        /\ ret.op = "format_for_html" =>
              HtmlLinks(ret.val)
                  = LinksToStartPages(HtmlRanges(ret.val), file_path, platform)
        /\ ret.op = "format_for_json" =>
              JsonLinks(ret.val)
                  = LinksToStartPages(JsonRanges(ret.val), file_path, platform)

\* A plain-text citation with links on several ranges, one of them longer
\* than a page, where a page comes from a node with another file_path.
C19_Witness ==
    /\ ret.op = "format_for_plain_text"
    /\ Len(PlainLinks(ret.val)) >= 2
    /\ \E r \in Elems(PlainRanges(ret.val)) : r[1] < r[2]
    /\ \E i \in PagedIndexes(nodes) :
          /\ nodes[i].metadata.file_path \notin {<<>>, <<"">>}
          /\ nodes[i].metadata.file_path
                 # extract_file_path_from_nodes(nodes)

(***************************************************************************)
(* Claims about the federation's queries (checked under Spec).             *)
(***************************************************************************)
\* The orders in which n queries can be taken.
Orders(n) ==
    {p \in [1..n -> 1..n] : \A i, j \in 1..n : i # j => p[i] # p[j]}

\* The federation `self` with its retrievers taken in the order p.
Reordered(self, p) ==
    [self EXCEPT !.retrievers = [i \in 1..Len(p) |-> self.retrievers[p[i]]]]

\* C16: the result of a federated query does not depend on the order in
\* which the per-collection queries complete.  A step of query_all or
\* query_best leaves the federation's retrievers as they were; the result
\* mapping has exactly one key per retriever, its collection's name, whose
\* value is the response of that retriever to its own index's outcome and
\* of nothing else; and taking the queries in any other order gives the
\* same mapping.
C16_QueryResultIndependentOfOrder ==
    [][ret'.op \in {"query_all", "query_best"} =>
          LET n == Len(fed.retrievers)
              q == ret'.query_text
              outs == ret'.outs
          IN  /\ fed' = fed
              /\ DictKeys(results') = DictKeys(fed.retrievers)
              /\ \A i \in 1..n :
                    /\ results'[i][2].collection_name = results'[i][1]
                    /\ results'[i][2] =
                          SmartRetriever_query(fed.retrievers[i][2], q, <<>>,
                                               settings, outs[i]).response
              /\ \A p \in Orders(n) :
                 \A reordered \in
                       {query_all(Reordered(fed, p), q, settings,
                                  [i \in 1..n |-> outs[p[i]]]).results} :
                    Elems(reordered) = Elems(results')
    ]_vars

\* A federated query over two collections of which the first fails and
\* the second answers.
C16_Witness ==
    /\ ret.op \in {"query_all", "query_best"}
    /\ Len(results) >= 2
    /\ ~results[1][2].retrieval_successful
    /\ results[2][2].retrieval_successful

\* C17 (as claimed): SmartRetriever.query uses the hierarchical
\* (auto-merging) retrieval mode exactly when that mode was detected as
\* available for the collection at construction time, and flat top-K
\* similarity retrieval otherwise; the top-K used is the per-call override
\* when one is given and the configured default (the construction value or
\* settings.SIMILARITY_TOP_K) otherwise, and is always a positive integer.
C17_ModeAsDetectedAndTopKPositive ==
    ret.op = "query" =>
        LET call == calls[1]
        IN  /\ call.mode = IF ret.self.has_docstore THEN "auto_merging"
                           ELSE "standard"
            /\ call.top_k = IF ret.similarity_top_k # <<>>
                            THEN ret.similarity_top_k[1]
                            ELSE ret.self.similarity_top_k
            /\ ret.self.similarity_top_k = SIMILARITY_TOP_K
            /\ call.top_k > 0

=============================================================================
